---- MODULE Spec2Model ----
(***************************************************************************)
(* The http.server module of bettercap (modules/http_server.go): the       *)
(* lifecycle of HttpServer (Configure / Start / Stop), the TLS certificate *)
(* provisioning done by Configure, and the serve goroutine that Start      *)
(* launches on the module's single http.Server value.                      *)
(*                                                                         *)
(* Callers are concurrent (the interactive console and the REST API both   *)
(* dispatch "http.server on" / "http.server off"), so every handler is cut *)
(* into the steps at which it reads or writes shared state.                *)
(***************************************************************************)
EXTENDS Integers, Sequences, FiniteSets, TLC

\* ---- bounds of the model -------------------------------------------------
MaxRuns == 2        \* serve goroutines launched (successful Starts)
MaxSets == 1        \* changes the operator makes to the parameter store
MaxReq  == 1        \* requests in flight at the same time

Callers == {"console", "api"}

\* ---- paths ---------------------------------------------------------------
\* A path is a sequence of segments; the empty path is the empty string.
NoPath   == << >>
HomeDir  == <<"/", "root">>
WorkDir  == <<"/", "srv">>

CertParams == {NoPath, <<"~", "cert.pem">>}
KeyParams  == {NoPath, <<"key.pem">>}
PathParams == {"."}
PortParams == {80}
AddrParams == {"127.0.0.1"}

\* fs.Expand: "" stays "", a leading ~ becomes the home directory, and the
\* result is made absolute against the working directory.
ReplaceHome(p) == IF Head(p) = "~" THEN HomeDir \o Tail(p) ELSE p
Abs(p)         == IF Head(p) = "/" THEN p ELSE WorkDir \o p
\* the path stored as the operator typed it
Expand_Raw(p)  == p
Expand(p)      == IF p = NoPath THEN NoPath ELSE Abs(ReplaceHome(p))

DiskPaths == {Expand(p) : p \in (CertParams \cup KeyParams) \ {NoPath}}

\* fmt.Sprintf("%s:%d", address, port)
Sprintf_addr(address, port) == address \o ":" \o ToString(port)

\* ---- file contents -------------------------------------------------------
Absent   == <<"absent">>        \* no such file
Supplied == <<"supplied">>      \* a file the operator put there
\* what the n-th run of the generation primitive writes
Generated(n) == <<"generated", n>>

VARIABLES
    active,         \* the callers that issue commands in this run of the tool
    started,        \* SessionModule.Started, the running flag
    server,         \* httpd.server: [Handler, Addr, inShutdown]
    certFile,       \* httpd.certFile
    keyFile,        \* httpd.keyFile
    env,            \* the parameter store: [path, address, port, certificate, key]
    sets,           \* number of changes made to the parameter store
    disk,           \* file system: path -> content
    generations,    \* number of key/certificate pairs generated so far
    serves,         \* the serve goroutines, in launch order
    inflight,       \* requests being handled by the server's connections
    pc, op, ret     \* per caller: position, operation, last return value

vars == <<active, started, server, certFile, keyFile, env, sets, disk, generations,
          serves, inflight, pc, op, ret>>

\* ---- NewHttpServer -------------------------------------------------------
NoHandler == "nil"

\* the defaults NewHttpServer registers for the parameters
DefaultEnv == [path |-> ".", address |-> "127.0.0.1", port |-> 80,
               certificate |-> NoPath, key |-> NoPath]

EnvDomain == [path : PathParams, address : AddrParams, port : PortParams,
              certificate : CertParams, key : KeyParams]

\* the module after NewHttpServer, on some file system and parameter store
Constructed ==
    /\ started = FALSE
    /\ server = [Handler |-> NoHandler, Addr |-> "", inShutdown |-> FALSE]
    /\ certFile = NoPath
    /\ keyFile = NoPath
    /\ env \in EnvDomain
    /\ sets = 0
    /\ disk \in [DiskPaths -> {Absent, Supplied}]
    /\ generations = 0
    /\ serves = << >>
    /\ inflight = 0
    /\ pc = [c \in Callers |-> "idle"]
    /\ op = [c \in Callers |-> "none"]
    /\ ret = [c \in Callers |-> "none"]

\* commands come from the interactive console only
Init ==
    /\ active = {"console"}
    /\ Constructed

\* commands come from the console and from the REST API at the same time;
\* the key and certificate files are the operator's
InitRace ==
    /\ active = Callers
    /\ Constructed
    /\ env = DefaultEnv
    /\ \A p \in DiskPaths : disk[p] = Supplied

\* ---- helpers -------------------------------------------------------------
Return(c, value) ==
    /\ pc' = [pc EXCEPT ![c] = "idle"]
    /\ ret' = [ret EXCEPT ![c] = value]

Goto(c, label) ==
    /\ pc' = [pc EXCEPT ![c] = label]
    /\ UNCHANGED ret

\* the process has been taken down by a panic in a serve goroutine: nothing
\* runs any more
Crashed == \E i \in 1..Len(serves) : serves[i].pc = "fatal"

\* ---- the operator --------------------------------------------------------
\* "set http.server.* ..." on the parameter store
SetParam ==
    /\ ~Crashed
    /\ sets < MaxSets
    /\ \E e \in EnvDomain \ {env} : env' = e
    /\ sets' = sets + 1
    /\ UNCHANGED <<active, started, server, certFile, keyFile, disk, generations,
                   serves, inflight, pc, op, ret>>

\* "http.server on" enters Start, "http.server off" enters Stop
Invoke(c, o) ==
    /\ ~Crashed
    /\ c \in active
    /\ pc[c] = "idle"
    /\ op' = [op EXCEPT ![c] = o]
    /\ ret' = [ret EXCEPT ![c] = "none"]
    /\ pc' = [pc EXCEPT ![c] = IF o = "Stop" THEN "StopSetRunning"
                                             ELSE "ConfigureRunning"]
    /\ UNCHANGED <<active, started, server, certFile, keyFile, env, sets, disk,
                   generations, serves, inflight>>

\* ---- Configure -----------------------------------------------------------
\* Configure without its guard on the running flag
ConfigureRunning_Unguarded(c) ==
    /\ ~Crashed
    /\ pc[c] = "ConfigureRunning"
    /\ Goto(c, "ConfigureServer")
    /\ UNCHANGED <<active, started, server, certFile, keyFile, env, sets, disk,
                   generations, serves, inflight, op>>

\* if httpd.Running() { return session.ErrAlreadyStarted }
ConfigureRunning(c) ==
    /\ ~Crashed
    /\ pc[c] = "ConfigureRunning"
    /\ IF started
          THEN Return(c, "ErrAlreadyStarted")
          ELSE Goto(c, "ConfigureServer")
    /\ UNCHANGED <<active, started, server, certFile, keyFile, env, sets, disk,
                   generations, serves, inflight, op>>

\* the ways the first half of Configure can end
ServerOutcomes == {"ok", "path", "address", "port"}

\* http.server.path and httpd.server.Handler = router, then
\* http.server.address, http.server.port and httpd.server.Addr = "address:port"
ConfigureServer(c) ==
    /\ ~Crashed
    /\ pc[c] = "ConfigureServer"
    /\ \E outcome \in ServerOutcomes :
          CASE outcome = "path" ->
                   /\ Return(c, "ErrBadParameter")
                   /\ UNCHANGED server
            [] outcome \in {"address", "port"} ->
                   /\ Return(c, "ErrBadParameter")
                   /\ server' = [server EXCEPT !.Handler = env.path]
            [] outcome = "ok" ->
                   /\ server' = [server EXCEPT
                                    !.Handler = env.path,
                                    !.Addr = Sprintf_addr(env.address, env.port)]
                   /\ Goto(c, "ConfigureTLS")
    /\ UNCHANGED <<active, started, certFile, keyFile, env, sets, disk, generations,
                   serves, inflight, op>>

\* ---- the Certificate Provisioner ----------------------------------------
\* fs.Exists: there is no file with the empty name
Exists(d, p) == p \in DOMAIN d /\ d[p] # Absent

\* generation only when both files are missing
MissingPair_Both(d, cert, key) == ~Exists(d, cert) /\ ~Exists(d, key)

\* !fs.Exists(certFile) || !fs.Exists(keyFile)
MissingPair(d, cert, key) == ~Exists(d, cert) \/ ~Exists(d, key)

\* tls.Generate(cfg, certFile, keyFile): writes the key and the certificate
\* of one freshly generated pair
Generate(d, cert, key, n) ==
    [p \in DOMAIN d |-> IF p \in {cert, key} THEN Generated(n) ELSE d[p]]

\* provisioning as soon as one of the two paths is set
BothSet_Either(cert, key) == cert # NoPath \/ key # NoPath

\* certFile != "" && keyFile != ""
BothSet(cert, key) == cert # NoPath /\ key # NoPath

\* generation whenever TLS is configured
MustGenerate_Always(d, cert, key) == BothSet(cert, key)

\* the pair has to be generated by this Configure
MustGenerate(d, cert, key) == BothSet(cert, key) /\ MissingPair(d, cert, key)

\* the file system after the provisioning block of a successful Configure
Provision(d, cert, key, n) ==
    IF MustGenerate(d, cert, key) THEN Generate(d, cert, key, n) ELSE d

\* the stores at the end of Configure done before its early returns
StoredAfter_Early(outcome, old, new) == new

\* httpd.certFile = certFile; httpd.keyFile = keyFile are reached only when
\* no earlier return was taken
StoredAfter(outcome, old, new) == IF outcome = "ok" THEN new ELSE old

\* the ways the second half of Configure can end
TLSOutcomes == {"ok", "certParam", "certExpand", "keyParam", "keyExpand",
                "certConfig", "generate"}

TLSError(outcome) ==
    IF outcome \in {"certConfig", "generate"} THEN "ErrProvision" ELSE "ErrBadParameter"

\* http.server.certificate and http.server.key, fs.Expand of both, the
\* provisioning block, then httpd.certFile = certFile; httpd.keyFile = keyFile
ConfigureTLS(c) ==
    /\ ~Crashed
    /\ pc[c] = "ConfigureTLS"
    /\ LET cert == Expand(env.certificate)
           key  == Expand(env.key)
       IN \E outcome \in TLSOutcomes :
            /\ outcome = "certExpand" => env.certificate # NoPath
            /\ outcome = "keyExpand" => env.key # NoPath
            /\ outcome \in {"certConfig", "generate"} => MustGenerate(disk, cert, key)
            /\ certFile' = StoredAfter(outcome, certFile, cert)
            /\ keyFile' = StoredAfter(outcome, keyFile, key)
            /\ IF outcome # "ok"
                  THEN /\ Return(c, TLSError(outcome))
                       /\ UNCHANGED <<disk, generations>>
                  ELSE /\ disk' = Provision(disk, cert, key, generations + 1)
                       /\ generations' = IF MustGenerate(disk, cert, key)
                                            THEN generations + 1 ELSE generations
                       /\ Goto(c, "StartSetRunning")
    /\ UNCHANGED <<active, started, server, env, sets, serves, inflight, op>>

\* ---- SessionModule.SetRunning -------------------------------------------
\* the transition is taken only from the other state
Accepted(running, flag) == running # flag

Rejection(running) == IF running THEN "ErrAlreadyStarted" ELSE "ErrAlreadyStopped"

\* ---- Start ---------------------------------------------------------------
NewServe == [pc |-> "created", tls |-> FALSE, addr |-> "", err |-> "none"]

\* Start launching its goroutine itself, whatever SetRunning answers
StartSetRunning_Launch(c) ==
    /\ ~Crashed
    /\ pc[c] = "StartSetRunning"
    /\ Len(serves) < MaxRuns
    /\ serves' = Append(serves, NewServe)
    /\ started' = TRUE
    /\ Return(c, IF Accepted(TRUE, started) THEN "nil" ELSE Rejection(TRUE))
    /\ UNCHANGED <<active, server, certFile, keyFile, env, sets, disk,
                   generations, inflight, op>>

\* Start dropping the answer of SetRunning
StartSetRunning_Swallow(c) ==
    /\ ~Crashed
    /\ pc[c] = "StartSetRunning"
    /\ IF Accepted(TRUE, started)
          THEN /\ Len(serves) < MaxRuns
               /\ started' = TRUE
               /\ serves' = Append(serves, NewServe)
          ELSE UNCHANGED <<started, serves>>
    /\ Return(c, "nil")
    /\ UNCHANGED <<active, server, certFile, keyFile, env, sets, disk,
                   generations, inflight, op>>

\* return httpd.SetRunning(true, func() { ... }): the flag flips and the
\* serve goroutine is launched, or the call is rejected
StartSetRunning(c) ==
    /\ ~Crashed
    /\ pc[c] = "StartSetRunning"
    /\ IF Accepted(TRUE, started)
          THEN /\ Len(serves) < MaxRuns
               /\ started' = TRUE
               /\ serves' = Append(serves, NewServe)
               /\ Return(c, "nil")
          ELSE /\ Return(c, Rejection(TRUE))
               /\ UNCHANGED <<active, started, serves>>
    /\ UNCHANGED <<active, server, certFile, keyFile, env, sets, disk,
                   generations, inflight, op>>

\* ---- the serve goroutine -------------------------------------------------
\* TLS as soon as one of the two paths is set
isTLS_Either(cert, key) == cert # NoPath \/ key # NoPath

\* httpd.certFile != "" && httpd.keyFile != ""
isTLS(cert, key) == cert # NoPath /\ key # NoPath

\* the goroutine picks ListenAndServeTLS or ListenAndServe and enters it
ServeEnter(i) ==
    /\ ~Crashed
    /\ serves[i].pc = "created"
    /\ serves' = [serves EXCEPT ![i] = [@ EXCEPT !.pc = "entered",
                                                 !.tls = isTLS(certFile, keyFile),
                                                 !.addr = server.Addr]]
    /\ UNCHANGED <<active, started, server, certFile, keyFile, env, sets, disk,
                   generations, inflight, pc, op, ret>>

\* inside the listen call: the listener is bound and tracked by the server,
\* which net/http refuses once Shutdown has been called on the server
ServeBind(i) ==
    /\ ~Crashed
    /\ serves[i].pc = "entered"
    /\ ~server.inShutdown
    /\ \A j \in 1..Len(serves) :
          serves[j].pc = "accepting" => serves[j].addr # serves[i].addr
    /\ serves' = [serves EXCEPT ![i].pc = "accepting"]
    /\ UNCHANGED <<active, started, server, certFile, keyFile, env, sets, disk,
                   generations, inflight, pc, op, ret>>

\* every error is fatal
IsFatal_Any(err) == err # "nil"

\* if err != nil && err != http.ErrServerClosed { panic(err) }
IsFatal(err) == err # "nil" /\ err # "ErrServerClosed"

\* the listen call returns: http.ErrServerClosed once Shutdown has been
\* called on the server, any other error when binding or accepting fails
ServeReturn(i) ==
    /\ ~Crashed
    /\ serves[i].pc \in {"entered", "accepting"}
    /\ \E err \in {"ErrServerClosed", "ListenFault"} :
          /\ err = "ErrServerClosed" => server.inShutdown
          /\ serves' = [serves EXCEPT ![i] = [@ EXCEPT !.err = err, !.addr = "",
                            !.pc = IF IsFatal(err) THEN "fatal" ELSE "returned"]]
    /\ UNCHANGED <<active, started, server, certFile, keyFile, env, sets, disk,
                   generations, inflight, pc, op, ret>>

\* a client connects to a listener that is accepting
RequestArrive ==
    /\ ~Crashed
    /\ inflight < MaxReq
    /\ ~server.inShutdown
    /\ \E i \in 1..Len(serves) : serves[i].pc = "accepting"
    /\ inflight' = inflight + 1
    /\ UNCHANGED <<active, started, server, certFile, keyFile, env, sets, disk,
                   generations, serves, pc, op, ret>>

\* a handler finishes its response
RequestComplete ==
    /\ ~Crashed
    /\ inflight > 0
    /\ inflight' = inflight - 1
    /\ UNCHANGED <<active, started, server, certFile, keyFile, env, sets, disk,
                   generations, serves, pc, op, ret>>

\* ---- Stop ----------------------------------------------------------------
\* Stop shutting the server down before it asks SetRunning
StopSetRunning_Eager(c) ==
    /\ ~Crashed
    /\ pc[c] = "StopSetRunning"
    /\ server' = [server EXCEPT !.inShutdown = TRUE]
    /\ IF Accepted(FALSE, started)
          THEN /\ started' = FALSE
               /\ Goto(c, "ShutdownWait")
          ELSE /\ Return(c, Rejection(FALSE))
               /\ UNCHANGED started
    /\ UNCHANGED <<active, certFile, keyFile, env, sets, disk,
                   generations, serves, inflight, op>>

\* return httpd.SetRunning(false, func() { ... }): the flag flips and the
\* callback runs in the caller, or the call is rejected
StopSetRunning(c) ==
    /\ ~Crashed
    /\ pc[c] = "StopSetRunning"
    /\ IF Accepted(FALSE, started)
          THEN /\ started' = FALSE
               /\ Goto(c, "Shutdown")
          ELSE /\ Return(c, Rejection(FALSE))
               /\ UNCHANGED started
    /\ UNCHANGED <<active, server, certFile, keyFile, env, sets, disk,
                   generations, serves, inflight, op>>

\* a Stop callback that only waits
StopShutdown_Skip(c) ==
    /\ ~Crashed
    /\ pc[c] = "Shutdown"
    /\ Goto(c, "ShutdownWait")
    /\ UNCHANGED <<active, started, server, certFile, keyFile, env, sets, disk,
                   generations, serves, inflight, op>>

\* httpd.server.Shutdown(ctx) begins: the server is marked as shutting down
\* and its listeners are closed
StopShutdown(c) ==
    /\ ~Crashed
    /\ pc[c] = "Shutdown"
    /\ server' = [server EXCEPT !.inShutdown = TRUE]
    /\ Goto(c, "ShutdownWait")
    /\ UNCHANGED <<active, started, certFile, keyFile, env, sets, disk, generations,
                   serves, inflight, op>>

\* Shutdown returns, either because no request is in flight any more or
\* because the 60 second deadline of ctx has passed: it then returns the
\* context's error, which Stop drops, and the connections stay open
StopReturn(c) ==
    /\ ~Crashed
    /\ pc[c] = "ShutdownWait"
    /\ Return(c, "nil")
    /\ UNCHANGED <<active, started, server, certFile, keyFile, env, sets, disk,
                   generations, serves, inflight, op>>

\* ---- the system ----------------------------------------------------------
Next ==
    \/ SetParam
    \/ \E c \in Callers, o \in {"Start", "Stop"} : Invoke(c, o)
    \/ \E c \in Callers : ConfigureRunning(c)
    \/ \E c \in Callers : ConfigureServer(c)
    \/ \E c \in Callers : ConfigureTLS(c)
    \/ \E c \in Callers : StartSetRunning(c)
    \/ \E c \in Callers : StopSetRunning(c)
    \/ \E c \in Callers : StopShutdown(c)
    \/ \E c \in Callers : StopReturn(c)
    \/ \E i \in 1..Len(serves) : ServeEnter(i)
    \/ \E i \in 1..Len(serves) : ServeBind(i)
    \/ \E i \in 1..Len(serves) : ServeReturn(i)
    \/ RequestArrive
    \/ RequestComplete

Spec == Init /\ [][Next]_vars

\* two callers, no client traffic
NextRace ==
    \/ SetParam
    \/ \E c \in Callers, o \in {"Start", "Stop"} : Invoke(c, o)
    \/ \E c \in Callers : ConfigureRunning(c)
    \/ \E c \in Callers : ConfigureServer(c)
    \/ \E c \in Callers : ConfigureTLS(c)
    \/ \E c \in Callers : StartSetRunning(c)
    \/ \E c \in Callers : StopSetRunning(c)
    \/ \E c \in Callers : StopShutdown(c)
    \/ \E c \in Callers : StopReturn(c)
    \/ \E i \in 1..Len(serves) : ServeEnter(i)
    \/ \E i \in 1..Len(serves) : ServeBind(i)
    \/ \E i \in 1..Len(serves) : ServeReturn(i)

SpecRace == InitRace /\ [][NextRace]_vars

\* ---- steps, as seen from outside ----------------------------------------
\* caller c leaves Configure in this step, with an error or to go on
LeavesLabel(c, label) == pc[c] = label /\ pc'[c] # label

\* serve goroutine i enters its listen call in this step
Enters(i) ==
    /\ i \in 1..Len(serves)
    /\ serves[i].pc = "created"
    /\ serves'[i].pc = "entered"

\* ---- C1 ------------------------------------------------------------------
\* C1: a Start whose Configure finds the running flag set returns the
\* already-started error in that step and leaves the listener address, the
\* handler, the stored certificate and key paths and the running flag as
\* they were.
C1_AlreadyRunning ==
    [][\A c \in Callers :
          (LeavesLabel(c, "ConfigureRunning") /\ started) =>
              /\ pc'[c] = "idle"
              /\ ret'[c] = "ErrAlreadyStarted"
              /\ server' = server
              /\ certFile' = certFile
              /\ keyFile' = keyFile
              /\ started' = started
              /\ serves' = serves]_vars

\* a Start was rejected while the module is running and a goroutine serves
C1_Witness ==
    /\ started
    /\ op["console"] = "Start"
    /\ ret["console"] = "ErrAlreadyStarted"
    /\ Len(serves) = 1
    /\ serves[1].pc = "accepting"

\* ---- C2 ------------------------------------------------------------------
\* C2: whenever a Start succeeds and launches its serve goroutine, no
\* shutdown has been requested on the listener handle it will listen on
\* (the handle is fresh, so the run can reach the listening state).
C2_FreshHandle ==
    [][Len(serves') > Len(serves) => ~server.inShutdown]_vars

C4_GeneratedTogether ==
    [][\A c \in Callers :
          LET cert == Expand(env.certificate)
              key  == Expand(env.key)
          IN (/\ pc[c] = "ConfigureTLS"
              /\ pc'[c] = "StartSetRunning"
              /\ cert # NoPath
              /\ key # NoPath
              /\ (disk[cert] = Absent \/ disk[key] = Absent)) =>
                 /\ disk'[cert] = disk'[key]
                 /\ disk'[cert] \notin {Absent, Supplied}
                 /\ disk'[cert] # disk[cert]
                 /\ disk'[key] # disk[key]
                 /\ \A p \in DiskPaths : disk[p] # disk'[cert]]_vars

\* the pair has been generated and is about to be served
C4_Witness ==
    /\ pc["console"] = "StartSetRunning"
    /\ generations = 1
    /\ certFile # NoPath
    /\ keyFile # NoPath
    /\ disk[certFile] = Generated(1)
    /\ disk[keyFile] = Generated(1)

\* ---- C5 ------------------------------------------------------------------
\* C5: when both resolved paths are non-empty and both files exist, no step
\* of Configure changes any file or runs the generation primitive, whatever
\* number of Configure/Start/Stop cycles came before; and a file changes
\* only in a Configure that found one of its two files absent.
C5_ExistingUntouched ==
    [][LET cert == Expand(env.certificate)
           key  == Expand(env.key)
       IN /\ \A c \in Callers :
                (/\ LeavesLabel(c, "ConfigureTLS")
                 /\ cert # NoPath
                 /\ key # NoPath
                 /\ disk[cert] # Absent
                 /\ disk[key] # Absent) =>
                    (disk' = disk /\ generations' = generations)
          /\ (disk' # disk \/ generations' # generations) =>
                /\ cert # NoPath
                /\ key # NoPath
                /\ (disk[cert] = Absent \/ disk[key] = Absent)
                /\ \E c \in Callers : LeavesLabel(c, "ConfigureTLS")]_vars

\* the operator's files are intact after two runs that used them
C5_Witness ==
    /\ Len(serves) = 2
    /\ serves[1].tls
    /\ serves[2].tls
    /\ certFile # NoPath
    /\ keyFile # NoPath
    /\ disk[certFile] = Supplied
    /\ disk[keyFile] = Supplied
    /\ generations = 0

\* ---- C6 ------------------------------------------------------------------
\* C6: when resolving or expanding a parameter fails, Configure returns the
\* error and the handler, the listener address and the stored certificate
\* and key paths are as they were.
C6_NoPartialState ==
    [][\A c \in Callers :
          (/\ pc[c] \in {"ConfigureServer", "ConfigureTLS"}
           /\ pc'[c] = "idle"
           /\ ret'[c] = "ErrBadParameter") =>
              /\ server' = server
              /\ certFile' = certFile
              /\ keyFile' = keyFile]_vars

\* ---- C7 ------------------------------------------------------------------
\* C7: when reading the certificate profile or generating the pair fails,
\* Start returns the error in that step, the module stays Idle, no serve
\* goroutine is launched and the stored certificate and key paths are not
\* updated.
C7_ProvisioningFailure ==
    [][\A c \in Callers :
          (/\ LeavesLabel(c, "ConfigureTLS")
           /\ ret'[c] = "ErrProvision") =>
              /\ pc'[c] = "idle"
              /\ ~started
              /\ ~started'
              /\ serves' = serves
              /\ certFile' = certFile
              /\ keyFile' = keyFile]_vars

\* a Start failed on provisioning: TLS is configured, nothing is stored,
\* nothing runs
C7_Witness ==
    /\ op["console"] = "Start"
    /\ ret["console"] = "ErrProvision"
    /\ env.certificate # NoPath
    /\ env.key # NoPath
    /\ certFile = NoPath
    /\ keyFile = NoPath
    /\ ~started
    /\ serves = << >>

\* ---- C8 ------------------------------------------------------------------
\* C8: with two callers racing, a Start returns success only in a step that
\* takes the flag from Idle to Running and launches exactly one serve
\* goroutine; a Start that finds the flag set is rejected and launches
\* nothing; a Stop that finds the module Idle is rejected and requests no
\* shutdown; and a serve goroutine is launched by nothing else.
C8_OneOwner ==
    [][/\ \A c \in Callers :
             /\ (LeavesLabel(c, "StartSetRunning") /\ ret'[c] = "nil") =>
                    /\ ~started
                    /\ started'
                    /\ Len(serves') = Len(serves) + 1
             /\ (LeavesLabel(c, "StartSetRunning") /\ started) =>
                    /\ ret'[c] = "ErrAlreadyStarted"
                    /\ started'
                    /\ serves' = serves
             /\ (LeavesLabel(c, "StopSetRunning") /\ ~started) =>
                    /\ pc'[c] = "idle"
                    /\ ret'[c] = "ErrAlreadyStopped"
                    /\ ~started'
                    /\ server' = server
       /\ serves' # serves /\ Len(serves') # Len(serves) =>
             \E c \in Callers :
                 /\ LeavesLabel(c, "StartSetRunning")
                 /\ ret'[c] = "nil"
                 /\ ~started]_vars

\* two Starts raced on an Idle module: one won, one was rejected
C8_Witness ==
    /\ op["console"] = "Start"
    /\ op["api"] = "Start"
    /\ ret["console"] = "nil"
    /\ ret["api"] = "ErrAlreadyStarted"
    /\ started
    /\ Len(serves) = 1
    /\ certFile = NoPath

\* ---- C9 ------------------------------------------------------------------
\* C9: Stop reports success, and when it returns no request is in flight
\* any more: each one has either completed before the deadline or been
\* terminated at the deadline.
C9_DrainOrTerminate ==
    [][\A c \in Callers :
          (pc[c] = "ShutdownWait" /\ pc'[c] = "idle") =>
              /\ ret'[c] = "nil"
              /\ inflight' = 0]_vars

\* ---- C10 -----------------------------------------------------------------
\* C10: a serve goroutine whose listen call has returned is in the fatal
\* state exactly when the error returned is not the server-closed error,
\* and the server-closed error is returned only after a shutdown request.
C10_FatalIffListenFault ==
    \A i \in 1..Len(serves) :
        /\ serves[i].err # "none" <=> serves[i].pc \in {"returned", "fatal"}
        /\ serves[i].pc = "fatal" <=> serves[i].err \notin {"none", "nil", "ErrServerClosed"}
        /\ serves[i].pc = "returned" <=> serves[i].err \in {"nil", "ErrServerClosed"}
        /\ serves[i].err = "ErrServerClosed" => server.inShutdown

\* one run ended by a requested shutdown, the next by a listen fault
C10_Witness ==
    /\ Len(serves) = 2
    /\ serves[1].pc = "returned"
    /\ serves[1].err = "ErrServerClosed"
    /\ serves[2].pc = "fatal"
    /\ serves[2].err = "ListenFault"

\* ---- C11 -----------------------------------------------------------------
\* C11: a Stop that finds the module Idle returns the already-stopped error
\* in that step, every time, and leaves the running flag, the listener and
\* the stored certificate and key paths as they were; it requests no
\* shutdown and touches no serve goroutine.
C11_StopIdle ==
    [][\A c \in Callers :
          (LeavesLabel(c, "StopSetRunning") /\ ~started) =>
              /\ pc'[c] = "idle"
              /\ ret'[c] = "ErrAlreadyStopped"
              /\ started' = started
              /\ server' = server
              /\ certFile' = certFile
              /\ keyFile' = keyFile
              /\ serves' = serves
              /\ inflight' = inflight]_vars

\* a Stop was rejected on a module that is Idle again after a run
C11_Witness ==
    /\ op["console"] = "Stop"
    /\ ret["console"] = "ErrAlreadyStopped"
    /\ ~started
    /\ server.inShutdown
    /\ Len(serves) = 1
    /\ serves[1].pc = "returned"

\* ---- C12 -----------------------------------------------------------------
\* C12: a Start returns an error only out of Configure or, from SetRunning,
\* when it found the flag already set; a Start that returns success does so
\* in the step that sets the flag and launches exactly one serve goroutine,
\* which has not entered its listen call yet; and a serve goroutine comes
\* into being only in such a step, so it enters its listen call after the
\* flag was set.
C12_StartResult ==
    [][/\ \A c \in Callers :
             (op[c] = "Start" /\ pc[c] # "idle" /\ pc'[c] = "idle") =>
                 /\ ret'[c] # "nil" =>
                        \/ pc[c] \in {"ConfigureRunning", "ConfigureServer", "ConfigureTLS"}
                        \/ (pc[c] = "StartSetRunning" /\ started
                               /\ ret'[c] = "ErrAlreadyStarted")
                 /\ ret'[c] = "nil" =>
                        /\ pc[c] = "StartSetRunning"
                        /\ ~started
                        /\ started'
                        /\ Len(serves') = Len(serves) + 1
                        /\ SubSeq(serves', 1, Len(serves)) = serves
                        /\ serves'[Len(serves')].pc = "created"
       /\ \A i \in 1..Len(serves') :
             i > Len(serves) =>
                 /\ started'
                 /\ serves'[i].pc = "created"
                 /\ \E c \in Callers : /\ op[c] = "Start"
                                        /\ pc[c] = "StartSetRunning"
                                        /\ ret'[c] = "nil"]_vars

\* one Start succeeded and its goroutine listens, the racing one was rejected
\* by SetRunning
C12_Witness ==
    /\ op["console"] = "Start"
    /\ ret["console"] = "nil"
    /\ op["api"] = "Start"
    /\ ret["api"] = "ErrAlreadyStarted"
    /\ started
    /\ Len(serves) = 1
    /\ serves[1].pc = "accepting"

\* ---- C13 -----------------------------------------------------------------
\* caller c completes Configure successfully in this step
ConfigureSucceeds(c) == pc[c] = "ConfigureTLS" /\ pc'[c] = "StartSetRunning"

ShutdownIssued ==
    \E c \in Callers :
        /\ op[c] = "Stop"
        /\ \/ pc[c] = "ShutdownWait"
           \/ (pc[c] = "idle" /\ ret[c] = "nil")

\* C14: once a successful Stop has issued its shutdown request, the server
\* is shutting down, no serve goroutine starts accepting and no connection
\* is accepted any more, also when the goroutine of the stopped run had not
\* entered its listen call yet.
C14_NoAcceptAfterStop ==
    [][ShutdownIssued =>
          /\ server.inShutdown
          /\ inflight' <= inflight
          /\ \A i \in 1..Len(serves) :
                serves'[i].pc = "accepting" => serves[i].pc = "accepting"]_vars

\* the shutdown request has been issued and the goroutine of the stopped
\* run has not entered its listen call yet
C14_Witness ==
    /\ op["console"] = "Stop"
    /\ pc["console"] = "ShutdownWait"
    /\ server.inShutdown
    /\ Len(serves) = 1
    /\ serves[1].pc = "created"

\* ---- C15 -----------------------------------------------------------------
\* C15: whenever the running flag is set and no fatal fault has been
\* raised, the serve goroutine launched by the last successful Start is
\* about to enter its listen call or is inside it: it has not returned.
C15_ServingWhileRunning ==
    (started /\ ~Crashed /\ Len(serves) > 0) =>
        serves[Len(serves)].pc \in {"created", "entered", "accepting"}

\* ---- C16 -----------------------------------------------------------------
\* C16: from the step in which a Start wins the Idle-to-Running transition
\* until the matching Stop, that is while the running flag is set, no step
\* changes the listener address, the handler or the stored certificate and
\* key paths.
C16_ConfigFrozenWhileRunning ==
    [][started =>
          /\ server'.Addr = server.Addr
          /\ server'.Handler = server.Handler
          /\ certFile' = certFile
          /\ keyFile' = keyFile]_vars

\* ---- C17 -----------------------------------------------------------------
\* C17: at most one serve goroutine is between entering its listen call and
\* returning from it.
C17_OneListenCall ==
    Cardinality({i \in 1..Len(serves) : serves[i].pc \in {"entered", "accepting"}}) <= 1

\* ---- C18 -----------------------------------------------------------------
\* caller c takes a step of Configure
ConfigureStep(c) ==
    \E label \in {"ConfigureRunning", "ConfigureServer", "ConfigureTLS"} :
        LeavesLabel(c, label)

\* C18: no step of Configure, successful or not, changes the running flag,
\* launches or moves a serve goroutine, requests a shutdown or touches a
\* connection; a Configure that gets past the address sets the listener
\* address to "address:port", and a successful Configure stores the
\* certificate and key paths of the parameter store with ~ replaced by the
\* home directory and relative paths made absolute ("" staying "").
C18_ConfigureOnly ==
    [][\A c \in Callers :
          /\ ConfigureStep(c) =>
                /\ started' = started
                /\ serves' = serves
                /\ server'.inShutdown = server.inShutdown
                /\ inflight' = inflight
          /\ (/\ pc[c] = "ConfigureServer"
              /\ pc'[c] = "ConfigureTLS"
              /\ env.address = "127.0.0.1"
              /\ env.port = 80) => server'.Addr = "127.0.0.1:80"
          /\ ConfigureSucceeds(c) =>
                /\ certFile' = IF env.certificate = <<"~", "cert.pem">>
                                  THEN <<"/", "root", "cert.pem">> ELSE NoPath
                /\ keyFile' = IF env.key = <<"key.pem">>
                                 THEN <<"/", "srv", "key.pem">> ELSE NoPath]_vars

\* Configure has succeeded with both paths set: they are stored expanded,
\* the address is set, and the module is Idle with no goroutine
C18_Witness ==
    /\ pc["console"] = "StartSetRunning"
    /\ certFile = <<"/", "root", "cert.pem">>
    /\ keyFile = <<"/", "srv", "key.pem">>
    /\ server.Addr = "127.0.0.1:80"
    /\ ~started
    /\ serves = << >>

====
